---------------------------- MODULE Spec2Model ----------------------------
(***************************************************************************)
(* Perception-Reasoning-Action-Feedback loop of the environment-controlled *)
(* agent (src/agent.py) with its two drivers: the LangGraph graph run by   *)
(* StructuredAgent.run_agent and the step-by-step loop of                  *)
(* StreamlitAgentRunner (src/app.py).                                      *)
(*                                                                         *)
(* Text is a sequence of tokens: the empty sequence is the empty string,   *)
(* an f-string is the concatenation of its pieces, "marker in text" is     *)
(* token membership and text.startswith(marker) looks at the first token.  *)
(* The reasoning engine, the tools and the human are the environment:      *)
(* every call draws its outcome from a small set.                          *)
(***************************************************************************)
EXTENDS Naturals, Sequences, FiniteSets

(***************************************************************************)
(* Bounds of the model.                                                    *)
(***************************************************************************)
\* largest max_iterations explored with an unrestricted reasoning engine
MaxIter == 2
\* max_iterations explored with an engine that only returns malformed text
LongIter == 11

(***************************************************************************)
(* Text helpers.                                                           *)
(***************************************************************************)
\* str.lower() on the tokens that occur with capitals
Lower(tok) ==
    CASE tok = "Calculate" -> "calculate"
      [] tok = "Email" -> "email"
      [] tok = "Task Is Complete" -> "task is complete"
      [] tok = "Y" -> "y"
      [] tok = "Yes" -> "yes"
      [] OTHER -> tok

LowerText(text) == [i \in DOMAIN text |-> Lower(text[i])]

\* marker in text
Contains(text, marker) == \E i \in DOMAIN text : text[i] = marker

\* text.startswith(marker)
StartsWith(text, marker) == Len(text) > 0 /\ text[1] = marker

\* whole text `inner` occurs inside `outer` (an embedded f-string field)
Embeds(outer, inner) ==
    \E i \in 0..(Len(outer) - Len(inner)) :
        \A j \in 1..Len(inner) : outer[i + j] = inner[j]

(***************************************************************************)
(* Configuration.                                                          *)
(***************************************************************************)
HUMAN_CONFIRMATION_TOOLS == {"send_email"}

\* the tool registry built in action_node and in both confirmation handlers
tools == {"run_python", "send_email", "draft_email", "search_web"}

CompletionPhrases ==
    {"task is complete", "already complete", "no action needed", "goal is met"}

ArithmeticOperators == {"+", "-", "*", "/", "^"}

(***************************************************************************)
(* AgentState: a dict with optional keys.  `present` is the set of keys    *)
(* the dict holds; a key that is absent keeps the default that             *)
(* state.get(key, default) would return.                                   *)
(***************************************************************************)
initial_state(query, max_iterations) ==
    [query |-> query,
     perception |-> <<>>,
     plan |-> <<>>,
     action_input |-> <<>>,
     action_name |-> "",
     action_result |-> <<>>,
     feedback |-> <<>>,
     goal_met |-> FALSE,
     iterations |-> 0,
     final_answer |-> <<>>,
     max_iterations |-> max_iterations,
     next_step_needed |-> <<>>,
     action_history |-> <<>>,
     needs_confirmation |-> FALSE,
     user_confirmation |-> "",
     confirmation_pending |-> FALSE,
     draft_content |-> <<>>,
     present |-> {"query", "iterations", "goal_met", "max_iterations",
                  "needs_confirmation", "confirmation_pending"}]

\* state[key] = value
Put(s, key, value) == [s EXCEPT ![key] = value, !.present = @ \cup {key}]

(***************************************************************************)
(* Routing.                                                                *)
(***************************************************************************)
\* lines 1030-1036 with > in place of >=
should_continue_past_ceiling(s) ==
    IF s.goal_met \/ s.iterations > s.max_iterations
    THEN "END"
    ELSE "perception_node"

\* lines 1030-1036 with the goal_met test missing
should_continue_ignores_goal(s) ==
    IF s.iterations >= s.max_iterations
    THEN "END"
    ELSE "perception_node"

\* should_continue without the iteration ceiling
should_continue_without_ceiling(s) ==
    IF s.goal_met
    THEN "END"
    ELSE "perception_node"

should_continue(s) ==
    IF s.goal_met \/ s.iterations >= s.max_iterations
    THEN "END"
    ELSE "perception_node"

\* lines 1039-1047 with the gate skipped once the goal is met
should_confirm_unless_goal_met(s) ==
    IF s.needs_confirmation /\ s.confirmation_pending /\ ~s.goal_met
    THEN "human_confirmation_node"
    ELSE "continue_flow_node"

should_confirm(s) ==
    IF s.needs_confirmation /\ s.confirmation_pending
    THEN "human_confirmation_node"
    ELSE "continue_flow_node"

(***************************************************************************)
(* The environment: queries, reasoning-engine responses, tool outcomes.    *)
(***************************************************************************)
Queries ==
    {<<>>,
     <<"Calculate", " 25 ", "*", " 8">>,
     <<"Send an ", "Email", " to bob">>,
     <<"weather in New York">>}

WellFormedEmail == <<"to:", "bob@example.com", "|subject:", "Hi", "|body:", "Hello">>
NoRecipientEmail == <<"Hello Bob, see you soon">>

\* action_input values the engine proposes
ActionInputs == {WellFormedEmail, NoRecipientEmail}

\* action_name values the engine proposes: a registered tool, nothing, or a
\* name that is not in the registry
EngineActionNames == tools \cup {"", "translate_text"}

UndecidedContent == <<"I am not sure which tool fits">>
CompleteContent == <<"The ", "Task Is Complete", ".">>

\* chain.invoke in reasoning_node: the call raises, or returns content that
\* json.loads rejects (or that is not an object), or returns an object whose
\* action_input is text or is not subscriptable (null, a number)
ReasoningResponses(eng) ==
    {[kind |-> "raise"]}
    \cup {[kind |-> "malformed", content |-> c] :
            c \in {UndecidedContent, CompleteContent}}
    \cup (IF eng = "malformed" THEN {} ELSE
          {[kind |-> "object", content |-> UndecidedContent,
            action_name |-> n, action_input |-> i, input_is_text |-> TRUE] :
              n \in EngineActionNames, i \in ActionInputs}
          \cup
          {[kind |-> "object", content |-> c,
            action_name |-> n, action_input |-> <<>>, input_is_text |-> FALSE] :
              n \in {"send_email", ""}, c \in {UndecidedContent, CompleteContent}})

\* chain.invoke in feedback_node
FeedbackResponses(eng) ==
    {[kind |-> "raise"]}
    \cup {[kind |-> "malformed", content |-> <<"Looks fine to me">>]}
    \cup (IF eng = "malformed" THEN {} ELSE
          {[kind |-> "object", feedback |-> f, goal_met |-> g,
            next_step_needed |-> <<"try another tool">>, final_answer |-> a] :
              f \in {<<>>, <<"assessment">>}, g \in BOOLEAN,
              a \in {<<>>, <<"full answer">>}})

\* chain.invoke in perception_node
PerceptionPrompts == {"initial", "refinement"}

\* chain.invoke in perception_node: the call raises, or answers the prompt it
\* was given (the decomposition of the query, or the refinement of the last
\* iteration)
PerceptionResponses ==
    {[kind |-> "raise"]}
    \cup {[kind |-> "text", prompt |-> p,
           content |-> IF p = "refinement"
                       THEN <<"refined task description">>
                       ELSE <<"task description">>] : p \in PerceptionPrompts}

\* str.strip() on one input field
Strip(tok) == IF tok = " " THEN "" ELSE tok

\* value of the last "label..." part of a pipe-separated text
EmailField(email_data, label) ==
    LET idx == {i \in 1..(Len(email_data) - 1) : email_data[i] = label}
    IN  IF idx = {} THEN ""
        ELSE Strip(email_data[(CHOOSE i \in idx : \A j \in idx : j <= i) + 1])

parse_email_data(email_data) ==
    [to |-> IF StartsWith(email_data, "to:")
            THEN EmailField(email_data, "to:") ELSE "",
     subject |-> EmailField(email_data, "|subject:"),
     body |-> EmailField(email_data, "|body:")]

draft_email(email_data) ==
    LET parsed == parse_email_data(email_data)
    IN  IF parsed.to = ""
        THEN <<"Error", ": No recipient email address provided">>
        ELSE <<"EMAIL DRAFT", "To: ", parsed.to, "Subject: ",
               IF parsed.subject = "" THEN "Please provide the subject"
               ELSE parsed.subject,
               "Message: ",
               IF parsed.body = "" THEN "Please provide the message content"
               ELSE parsed.body>>

\* results send_gmail can return: configuration, recipient and SMTP errors,
\* or the success line
send_gmail(email_data) ==
    LET parsed == parse_email_data(email_data)
    IN  {<<"Error", ": Gmail email not configured">>}
        \cup (IF parsed.to = ""
              THEN {<<"Error", ": No recipient email address provided">>}
              ELSE {<<"Email ", "successfully sent", " to ", parsed.to>>,
                    <<"Error", ": Gmail authentication failed">>})

run_python ==
    {<<"215">>, <<>>, <<"Error", " in calculation">>}

search_web ==
    {<<"Web Search Results", " for: ...">>,
     <<"Search completed", " but no results were found">>,
     <<"Error", " performing web search">>}

\* tools[action_name](action_input): the text returned, or an exception
ToolOutcomes(action_name, action_input) ==
    {[raised |-> TRUE, text |-> <<"tool failure">>]}
    \cup {[raised |-> FALSE, text |-> t] :
            t \in CASE action_name = "run_python" -> run_python
                    [] action_name = "search_web" -> search_web
                    [] action_name = "draft_email" -> {draft_email(action_input)}
                    [] action_name = "send_email" -> send_gmail(action_input)
                    [] OTHER -> {}}

(***************************************************************************)
(* The stages, as functions from the state and the environment's answer    *)
(* to the next state.                                                      *)
(***************************************************************************)
\* lines 478-482 placed after the empty-query return of lines 486-491
count_iteration_after_query_check(s) ==
    IF s.query = <<>>
    THEN s
    ELSE IF "iterations" \notin s.present
    THEN Put(s, "iterations", 0)
    ELSE Put(s, "iterations", s.iterations + 1)

\* lines 478-482: the counter is initialised when absent, incremented otherwise
count_iteration(s) ==
    IF "iterations" \notin s.present
    THEN Put(s, "iterations", 0)
    ELSE Put(s, "iterations", s.iterations + 1)

\* lines 494-500 with the feedback test missing
has_meaningful_context_without_feedback(s) ==
    /\ s.iterations > 0
    /\ s.action_name # ""
    /\ s.action_result # <<>>
    /\ ~s.goal_met

has_meaningful_context(s) ==
    /\ s.iterations > 0
    /\ s.action_name # ""
    /\ s.action_result # <<>>
    /\ s.feedback # <<>>
    /\ ~s.goal_met

\* lines 501-534: the prompt built for the engine
perception_prompt(s) ==
    IF has_meaningful_context(s) THEN "refinement" ELSE "initial"

search_already_done(s) ==
    s.action_name = "search_web" /\ Contains(s.action_result, "Web Search Results")

\* TRUE when the pass reaches chain.invoke
perception_consults_engine(s) ==
    LET s1 == count_iteration(s)
    IN  /\ s1.query # <<>>
        /\ ~(has_meaningful_context(s1) /\ search_already_done(s1))

\* lines 469-542 with the previous action_result dropped at the start of a pass
perception_node_resets_result(s, response) ==
    LET s1 == Put(count_iteration(s), "action_result", <<>>)
    IN  IF s1.query = <<>>
        THEN Put(s1, "perception", <<"No query provided">>)
        ELSE IF has_meaningful_context(s1) /\ search_already_done(s1)
        THEN Put(s1, "perception",
                 <<"Task completed: Successfully found information about '">>
                 \o s1.query \o <<"' through web search.">>)
        ELSE Put(s1, "perception", response.content)

perception_node(s, response) ==
    LET s1 == count_iteration(s)
    IN  IF s1.query = <<>>
        THEN Put(s1, "perception", <<"No query provided">>)
        ELSE IF has_meaningful_context(s1) /\ search_already_done(s1)
        THEN Put(s1, "perception",
                 <<"Task completed: Successfully found information about '">>
                 \o s1.query \o <<"' through web search.">>)
        ELSE Put(s1, "perception", response.content)

\* lines 671-687: the raw response announces completion
reasoning_complete(s) ==
    LET s1 == Put(Put(Put(Put(Put(s,
                  "action_name", ""),
                  "action_input", <<>>),
                  "plan", <<"Task appears to be already complete based on previous results">>),
                  "needs_confirmation", FALSE),
                  "goal_met", TRUE)
    IN  IF s1.action_result # <<>>
        THEN Put(s1, "final_answer",
                 <<"Based on the previous results: ">> \o s1.action_result)
        ELSE Put(s1, "final_answer", <<"Task completed based on previous analysis">>)

\* lines 689-701 with the two query.lower() calls missing
reasoning_fallback_case_sensitive(s) ==
    LET query == s.query
        name == IF Contains(query, "calculate")
                   \/ \E op \in ArithmeticOperators : Contains(query, op)
                THEN "run_python"
                ELSE IF Contains(query, "email")
                THEN "draft_email"
                ELSE "search_web"
    IN  Put(Put(Put(Put(s,
            "action_name", name),
            "action_input", query),
            "plan", <<"Fallback reasoning due to parsing error">>),
            "needs_confirmation", FALSE)

\* lines 689-701 with the search default missing
reasoning_fallback_without_default(s) ==
    LET query == s.query
        name == IF Contains(LowerText(query), "calculate")
                   \/ \E op \in ArithmeticOperators : Contains(query, op)
                THEN "run_python"
                ELSE IF Contains(LowerText(query), "email")
                THEN "draft_email"
                ELSE ""
    IN  Put(Put(Put(Put(s,
            "action_name", name),
            "action_input", query),
            "plan", <<"Fallback reasoning due to parsing error">>),
            "needs_confirmation", FALSE)

\* lines 689-701: routing by keywords of the query
reasoning_fallback(s) ==
    LET query == s.query
        name == IF Contains(LowerText(query), "calculate")
                   \/ \E op \in ArithmeticOperators : Contains(query, op)
                THEN "run_python"
                ELSE IF Contains(LowerText(query), "email")
                THEN "draft_email"
                ELSE "search_web"
    IN  Put(Put(Put(Put(s,
            "action_name", name),
            "action_input", query),
            "plan", <<"Fallback reasoning due to parsing error">>),
            "needs_confirmation", FALSE)

\* lines 667-701: the except branch
reasoning_except(s, content) ==
    IF \E phrase \in CompletionPhrases : Contains(LowerText(content), phrase)
    THEN reasoning_complete(s)
    ELSE reasoning_fallback(s)

\* lines 651-665 with the preview drafted from the query
check_confirmation_drafts_query(s) ==
    IF s.action_name \in HUMAN_CONFIRMATION_TOOLS
    THEN LET s1 == Put(Put(s, "needs_confirmation", TRUE),
                       "confirmation_pending", TRUE)
         IN  IF s1.action_name = "send_email"
             THEN Put(s1, "draft_content", draft_email(s1.query))
             ELSE s1
    ELSE Put(Put(s, "needs_confirmation", FALSE), "confirmation_pending", FALSE)

\* lines 651-665 with the needs_confirmation assignment of line 653 missing
check_confirmation_pending_only(s) ==
    IF s.action_name \in HUMAN_CONFIRMATION_TOOLS
    THEN LET s1 == Put(s, "confirmation_pending", TRUE)
         IN  IF s1.action_name = "send_email"
             THEN Put(s1, "draft_content", draft_email(s1.action_input))
             ELSE s1
    ELSE Put(Put(s, "needs_confirmation", FALSE), "confirmation_pending", FALSE)

\* lines 651-665
check_confirmation(s) ==
    IF s.action_name \in HUMAN_CONFIRMATION_TOOLS
    THEN LET s1 == Put(Put(s, "needs_confirmation", TRUE),
                       "confirmation_pending", TRUE)
         IN  IF s1.action_name = "send_email"
             THEN Put(s1, "draft_content", draft_email(s1.action_input))
             ELSE s1
    ELSE Put(Put(s, "needs_confirmation", FALSE), "confirmation_pending", FALSE)

reasoning_node(s, response) ==
    LET s0 == IF "action_history" \notin s.present
              THEN Put(s, "action_history", <<>>) ELSE s
    IN  IF response.kind = "malformed"
        THEN reasoning_except(s0, response.content)
        ELSE LET s1 == Put(Put(Put(s0,
                           "plan", <<"Intent: ", "analysis", "Reasoning: ", "rationale">>),
                           "action_name", response.action_name),
                           "action_input", response.action_input)
                 s2 == IF s1.action_name # ""
                       THEN Put(s1, "action_history",
                                Append(s1.action_history, s1.action_name))
                       ELSE s1
             IN  IF response.input_is_text
                 THEN check_confirmation(s2)
                 \* line 649: slicing the input raises, the except branch runs
                 ELSE reasoning_except(s2, response.content)

\* line 727 waiting only while no confirmation request is pending
awaits_confirmation_once_pending(s) ==
    s.needs_confirmation /\ ~s.confirmation_pending
       /\ s.user_confirmation \notin {"y", "yes"}

\* line 727 with a consent given only on an explicit refusal missing
awaits_confirmation_unless_refused(s) ==
    s.needs_confirmation /\ s.user_confirmation \in {"n", "no"}

\* line 727: confirmation is needed but not provided
awaits_confirmation(s) ==
    s.needs_confirmation /\ s.user_confirmation \notin {"y", "yes"}

\* lines 741-755 with the registry lookup of line 741 missing
action_invokes_tool_unregistered(s) ==
    /\ s.action_name # ""
    /\ ~awaits_confirmation(s)

\* lines 721-744: TRUE when the pass reaches tools[action_name](action_input)
action_invokes_tool(s) ==
    /\ s.action_name # ""
    /\ ~awaits_confirmation(s)
    /\ s.action_name \in tools

\* lines 742-752 with the except branch only logging the error
execute_tool_swallows_error(s, outcome) ==
    IF outcome.raised
    THEN s
    ELSE Put(s, "action_result", outcome.text)

\* lines 742-752
execute_tool(s, outcome) ==
    IF outcome.raised
    THEN Put(s, "action_result",
             <<"Error", " executing ", s.action_name, ": ">> \o outcome.text)
    ELSE Put(s, "action_result", outcome.text)

\* lines 706-757 with the waiting branch also dropping the pending input
action_node_waiting_clears_input(s, outcome) ==
    IF s.action_name = ""
    THEN Put(s, "action_result", <<"Task completed - no action needed">>)
    ELSE IF awaits_confirmation(s)
    THEN Put(Put(s, "action_result", <<"Waiting for user confirmation">>),
             "action_input", <<>>)
    ELSE IF s.action_name \in tools
    THEN execute_tool(s, outcome)
    ELSE Put(s, "action_result", <<"Unknown action: ", s.action_name>>)

action_node(s, outcome) ==
    IF s.action_name = ""
    THEN Put(s, "action_result", <<"Task completed - no action needed">>)
    ELSE IF awaits_confirmation(s)
    THEN Put(s, "action_result", <<"Waiting for user confirmation">>)
    ELSE IF s.action_name \in tools
    THEN execute_tool(s, outcome)
    ELSE Put(s, "action_result", <<"Unknown action: ", s.action_name>>)

\* str(n) inside an f-string
Str(n) ==
    <<"0", "1", "2", "3", "4", "5", "6", "7", "8", "9", "10", "11", "12",
      "13", "14", "15">>[n + 1]

\* lines 826-847 with the final_answer copied whatever the verdict
feedback_parsed_always_answers(s, data) ==
    LET s1 == Put(Put(s, "feedback", data.feedback), "goal_met", data.goal_met)
        s2 == IF ~s1.goal_met
              THEN Put(s1, "next_step_needed", data.next_step_needed) ELSE s1
        s3 == Put(s2, "final_answer", data.final_answer)
    IN  IF s3.iterations >= s3.max_iterations /\ ~s3.goal_met
        THEN Put(Put(s3,
                 "final_answer",
                 <<"I wasn't able to fully answer your question within the iteration limit (",
                   Str(s3.max_iterations), " iterations), but here's what I found: ">>
                 \o s3.action_result),
                 "goal_met", TRUE)
        ELSE s3

\* lines 826-847: the verdict parsed as an object
feedback_parsed(s, data) ==
    LET s1 == Put(Put(s, "feedback", data.feedback), "goal_met", data.goal_met)
        s2 == IF ~s1.goal_met
              THEN Put(s1, "next_step_needed", data.next_step_needed) ELSE s1
        s3 == IF s2.goal_met
              THEN Put(s2, "final_answer", data.final_answer) ELSE s2
    IN  IF s3.iterations >= s3.max_iterations /\ ~s3.goal_met
        THEN Put(Put(s3,
                 "final_answer",
                 <<"I wasn't able to fully answer your question within the iteration limit (",
                   Str(s3.max_iterations), " iterations), but here's what I found: ">>
                 \o s3.action_result),
                 "goal_met", TRUE)
        ELSE s3

\* lines 849-878 with the search answer cut to its first part
feedback_fallback_summarises_search(s, content) ==
    LET action_name == s.action_name
        action_result == s.action_result
    IN  IF action_name = "run_python" /\ action_result # <<>>
           /\ ~StartsWith(action_result, "Error")
        THEN Put(Put(Put(s,
                 "feedback", <<"Successfully executed calculation">>),
                 "goal_met", TRUE),
                 "final_answer",
                 <<"The answer to '">> \o s.query \o <<"' is: ">> \o action_result)
        ELSE IF action_name = "search_web" /\ action_result # <<>>
                /\ Contains(action_result, "Web Search Results")
        THEN Put(Put(Put(s,
                 "feedback", <<"Successfully retrieved comprehensive web search results">>),
                 "goal_met", TRUE),
                 "final_answer", <<Head(action_result)>>)
        ELSE IF action_name = "draft_email" /\ action_result # <<>>
                /\ ~StartsWith(action_result, "Error")
        THEN Put(Put(Put(s,
                 "feedback", <<"Email draft created successfully, but not yet sent">>),
                 "goal_met", FALSE),
                 "next_step_needed", <<"Review the draft and send the email if satisfied">>)
        ELSE IF action_name = "send_email"
                /\ Contains(LowerText(action_result), "successfully sent")
        THEN Put(Put(Put(s,
                 "feedback", <<"Email sent successfully">>),
                 "goal_met", TRUE),
                 "final_answer", action_result)
        ELSE LET s1 == Put(Put(s, "feedback", content), "goal_met", FALSE)
             IN  IF s1.iterations >= s1.max_iterations
                 THEN Put(Put(s1,
                          "final_answer",
                          <<"I reached the iteration limit (", Str(s1.max_iterations),
                            " iterations), but here's the detailed information I found:">>
                          \o s1.action_result),
                          "goal_met", TRUE)
                 ELSE s1

\* lines 849-878: the verdict could not be parsed
feedback_fallback(s, content) ==
    LET action_name == s.action_name
        action_result == s.action_result
    IN  IF action_name = "run_python" /\ action_result # <<>>
           /\ ~StartsWith(action_result, "Error")
        THEN Put(Put(Put(s,
                 "feedback", <<"Successfully executed calculation">>),
                 "goal_met", TRUE),
                 "final_answer",
                 <<"The answer to '">> \o s.query \o <<"' is: ">> \o action_result)
        ELSE IF action_name = "search_web" /\ action_result # <<>>
                /\ Contains(action_result, "Web Search Results")
        THEN Put(Put(Put(s,
                 "feedback", <<"Successfully retrieved comprehensive web search results">>),
                 "goal_met", TRUE),
                 "final_answer", action_result)
        ELSE IF action_name = "draft_email" /\ action_result # <<>>
                /\ ~StartsWith(action_result, "Error")
        THEN Put(Put(Put(s,
                 "feedback", <<"Email draft created successfully, but not yet sent">>),
                 "goal_met", FALSE),
                 "next_step_needed", <<"Review the draft and send the email if satisfied">>)
        ELSE IF action_name = "send_email"
                /\ Contains(LowerText(action_result), "successfully sent")
        THEN Put(Put(Put(s,
                 "feedback", <<"Email sent successfully">>),
                 "goal_met", TRUE),
                 "final_answer", action_result)
        ELSE LET s1 == Put(Put(s, "feedback", content), "goal_met", FALSE)
             IN  IF s1.iterations >= s1.max_iterations
                 THEN Put(Put(s1,
                          "final_answer",
                          <<"I reached the iteration limit (", Str(s1.max_iterations),
                            " iterations), but here's the detailed information I found:">>
                          \o s1.action_result),
                          "goal_met", TRUE)
                 ELSE s1

feedback_node(s, response) ==
    IF response.kind = "object"
    THEN feedback_parsed(s, response)
    ELSE feedback_fallback(s, response.content)

(***************************************************************************)
(* The Confirmation Gate on the console (human_confirmation_node).         *)
(***************************************************************************)
ModifiedEmail == <<"to:", "carol@example.com", "|subject:", "Hi", "|body:", "Hello">>

\* what the three input() calls of the modify branch deliver
ModifyInputs ==
    {[kind |-> "KeyboardInterrupt"], [kind |-> "EOFError"]}
    \cup {[kind |-> "fields", new_to |-> t, new_subject |-> "Hi", new_body |-> "Hello"] :
            t \in {"carol@example.com", " "}}

\* what input("Your choice: ") delivers, with the follow-up of a modify
HumanInputs ==
    {[kind |-> "KeyboardInterrupt"], [kind |-> "EOFError"]}
    \cup {[kind |-> "line", line |-> l, modify |-> [kind |-> "EOFError"]] :
            l \in {"Y", "yes", "n", "no", "maybe"}}
    \cup {[kind |-> "line", line |-> l, modify |-> m] :
            l \in {"m", "modify"}, m \in ModifyInputs}

\* lines 951-952, ... with the confirmation_pending assignment missing
clear_confirmation_needs_only(s) ==
    Put(s, "needs_confirmation", FALSE)

\* lines 951-952, 959-960, 990-991, ...
clear_confirmation(s) ==
    Put(Put(s, "confirmation_pending", FALSE), "needs_confirmation", FALSE)

\* lines 1007-1013 with the error only recorded, the run left to go on
gate_input_error_unresolved(s) ==
    clear_confirmation(Put(s,
        "action_result", <<"Error getting user confirmation: ", "exception text">>))

\* lines 1007-1013
gate_input_error(s) ==
    clear_confirmation(Put(Put(Put(s,
        "action_result", <<"Error getting user confirmation: ", "exception text">>),
        "goal_met", TRUE),
        "final_answer", <<"Action was cancelled due to an error.">>))

\* lines 916-952 with a failed send left for the next iteration to retry
gate_confirm_retry_on_error(s, outcome) ==
    clear_confirmation(
        IF s.action_name \in tools
        THEN IF outcome.raised
             THEN Put(s, "action_result",
                      <<"Error", " executing ", s.action_name, ": ">> \o outcome.text)
             ELSE Put(Put(Put(s,
                      "action_result", outcome.text),
                      "goal_met", TRUE),
                      "final_answer",
                      <<"Action completed successfully: ">> \o outcome.text)
        ELSE Put(Put(Put(s,
                 "action_result", <<"Unknown action: ", s.action_name>>),
                 "goal_met", TRUE),
                 "final_answer", <<"Error: Unknown action ", s.action_name>>))

\* lines 916-952
gate_confirm(s, outcome) ==
    clear_confirmation(
        IF s.action_name \in tools
        THEN IF outcome.raised
             THEN Put(Put(Put(s,
                      "action_result",
                      <<"Error", " executing ", s.action_name, ": ">> \o outcome.text),
                      "goal_met", TRUE),
                      "final_answer", <<"Error occurred: ">> \o outcome.text)
             ELSE Put(Put(Put(s,
                      "action_result", outcome.text),
                      "goal_met", TRUE),
                      "final_answer",
                      <<"Action completed successfully: ">> \o outcome.text)
        ELSE Put(Put(Put(s,
                 "action_result", <<"Unknown action: ", s.action_name>>),
                 "goal_met", TRUE),
                 "final_answer", <<"Error: Unknown action ", s.action_name>>))

\* lines 954-960 with the two confirmation flags left set
gate_cancel_keeps_pending(s) ==
    Put(Put(Put(s,
        "action_result", <<"Action cancelled by user">>),
        "goal_met", TRUE),
        "final_answer", <<"Action was cancelled at your request.">>)

\* lines 954-960 with the goal_met assignment missing
gate_cancel_leaves_goal(s) ==
    clear_confirmation(Put(Put(s,
        "action_result", <<"Action cancelled by user">>),
        "final_answer", <<"Action was cancelled at your request.">>))

\* lines 954-960
gate_cancel(s) ==
    clear_confirmation(Put(Put(Put(s,
        "action_result", <<"Action cancelled by user">>),
        "goal_met", TRUE),
        "final_answer", <<"Action was cancelled at your request.">>))

\* line 972
compose_email(m) ==
    <<"to:", Strip(m.new_to), "|subject:", Strip(m.new_subject),
      "|body:", Strip(m.new_body)>>

\* lines 961-991
gate_modify(s, m, outcome) ==
    IF s.action_name = "send_email"
    THEN IF m.kind = "KeyboardInterrupt"
         THEN clear_confirmation(Put(Put(Put(s,
                  "action_result", <<"Modification cancelled">>),
                  "goal_met", TRUE),
                  "final_answer", <<"Email modification was cancelled.">>))
         ELSE IF m.kind = "EOFError"
         THEN gate_input_error(s)
         ELSE IF Strip(m.new_to) # ""
         THEN IF outcome.raised
              \* send_gmail is called outside the inner handlers
              THEN gate_input_error(s)
              ELSE clear_confirmation(Put(Put(Put(s,
                       "action_result", outcome.text),
                       "goal_met", TRUE),
                       "final_answer", <<"Modified email sent: ">> \o outcome.text))
         ELSE clear_confirmation(Put(Put(Put(s,
                  "action_result", <<"Modification cancelled - no email provided">>),
                  "goal_met", TRUE),
                  "final_answer", <<"Email modification was cancelled.">>))
    ELSE clear_confirmation(s)

\* the tool call of the gate with the modify branch sending the original input
gate_call_sends_original(s, human) ==
    IF s.action_name \notin HUMAN_CONFIRMATION_TOOLS \/ human.kind # "line"
    THEN <<>>
    ELSE IF Lower(human.line) \in {"y", "yes"}
    THEN IF s.action_name \in tools
         THEN <<[tool |-> s.action_name, input |-> s.action_input]>>
         ELSE <<>>
    ELSE IF Lower(human.line) \in {"m", "modify"}
            /\ s.action_name = "send_email"
            /\ human.modify.kind = "fields"
            /\ Strip(human.modify.new_to) # ""
    THEN <<[tool |-> "send_email", input |-> s.action_input]>>
    ELSE <<>>

\* the tool call of the gate: <<>> or one [tool, input]
gate_call(s, human) ==
    IF s.action_name \notin HUMAN_CONFIRMATION_TOOLS \/ human.kind # "line"
    THEN <<>>
    ELSE IF Lower(human.line) \in {"y", "yes"}
    THEN IF s.action_name \in tools
         THEN <<[tool |-> s.action_name, input |-> s.action_input]>>
         ELSE <<>>
    ELSE IF Lower(human.line) \in {"m", "modify"}
            /\ s.action_name = "send_email"
            /\ human.modify.kind = "fields"
            /\ Strip(human.modify.new_to) # ""
    THEN <<[tool |-> "send_email", input |-> compose_email(human.modify)]>>
    ELSE <<>>

human_confirmation_node(s, human, outcome) ==
    IF s.action_name \in HUMAN_CONFIRMATION_TOOLS
    THEN IF human.kind = "KeyboardInterrupt"
         THEN clear_confirmation(Put(Put(Put(s,
                  "action_result", <<"Action cancelled by user">>),
                  "goal_met", TRUE),
                  "final_answer", <<"Action was cancelled.">>))
         ELSE IF human.kind = "EOFError"
         THEN gate_input_error(s)
         ELSE LET user_input == Lower(human.line)
                  s1 == Put(s, "user_confirmation", user_input)
              IN  IF user_input \in {"y", "yes"}
                  THEN gate_confirm(s1, outcome)
                  ELSE IF user_input \in {"n", "no"}
                  THEN gate_cancel(s1)
                  ELSE IF user_input \in {"m", "modify"}
                  THEN gate_modify(s1, human.modify, outcome)
                  ELSE clear_confirmation(Put(Put(Put(s1,
                           "action_result",
                           <<"Invalid confirmation input, action cancelled">>),
                           "goal_met", TRUE),
                           "final_answer",
                           <<"Action was cancelled due to invalid input.">>))
    ELSE clear_confirmation(s)

(***************************************************************************)
(* The Confirmation Gate of the Streamlit runner.                          *)
(***************************************************************************)
\* the strings main() hands to handle_confirmation_response
ConfirmationResponses ==
    {<<"confirm">>, <<"cancel">>, <<"retry">>, <<"modify:">> \o ModifiedEmail}

\* app.py lines 1143-1147: the dict main() rebuilds for the handler
minimal_state(loop, data) ==
    [initial_state(<<>>, 0) EXCEPT
        !.iterations = loop - 1,
        !.action_name = data.action_name,
        !.action_input = data.action_input,
        !.present = {"iterations", "action_name", "action_input"}]

\* the tool call of the handler: <<>> or one [tool, input]
handler_call(s, response) ==
    IF s.action_name \notin tools THEN <<>>
    ELSE IF response = <<"confirm">>
    THEN <<[tool |-> s.action_name, input |-> s.action_input]>>
    ELSE IF response # <<"cancel">> /\ StartsWith(response, "modify:")
    THEN <<[tool |-> s.action_name, input |-> Tail(response)]>>
    ELSE <<>>

handle_confirmation_response(response, s, outcome) ==
    IF response = <<"confirm">>
    THEN IF s.action_name \in tools
         THEN IF outcome.raised
              THEN Put(Put(Put(s,
                       "action_result",
                       <<"Error", " executing ", s.action_name, ": ">> \o outcome.text),
                       "goal_met", TRUE),
                       "final_answer", <<"Error occurred: ">> \o outcome.text)
              ELSE Put(Put(Put(s,
                       "action_result", outcome.text),
                       "goal_met", TRUE),
                       "final_answer",
                       <<"Action completed successfully: ">> \o outcome.text)
         ELSE Put(Put(Put(s,
                  "action_result", <<"Unknown action: ", s.action_name>>),
                  "goal_met", TRUE),
                  "final_answer", <<"Error: Unknown action ", s.action_name>>)
    ELSE IF response = <<"cancel">>
    THEN Put(Put(Put(s,
             "action_result", <<"Action cancelled by user">>),
             "goal_met", TRUE),
             "final_answer", <<"Action was cancelled at your request.">>)
    ELSE IF StartsWith(response, "modify:")
    THEN LET modified_input == Tail(response)
             s1 == Put(s, "action_input", modified_input)
         IN  IF s1.action_name \in tools
             THEN IF outcome.raised
                  THEN Put(Put(Put(s1,
                           "action_result",
                           <<"Error", " executing modified ", s1.action_name, ": ">>
                           \o outcome.text),
                           "goal_met", TRUE),
                           "final_answer",
                           <<"Error occurred with modified input: ">> \o outcome.text)
                  ELSE Put(Put(Put(s1,
                           "action_result", outcome.text),
                           "goal_met", TRUE),
                           "final_answer",
                           <<"Action completed successfully with modifications: ">>
                           \o outcome.text)
             ELSE Put(Put(Put(s1,
                      "action_result", <<"Unknown action: ", s1.action_name>>),
                      "goal_met", TRUE),
                      "final_answer", <<"Error: Unknown action ", s1.action_name>>)
    ELSE Put(Put(Put(s,
             "action_result", <<"Unexpected response: ">> \o response),
             "goal_met", TRUE),
             "final_answer", <<"Unexpected response received: ">> \o response)

(***************************************************************************)
(* What the entry points hand back.                                        *)
(***************************************************************************)
NotReturned == [returned |-> FALSE]

\* agent.invoke returned: run_agent returns the final AgentState
returned_state(s) == [returned |-> TRUE, record |-> s]

\* agent.py lines 1158-1164 with the apology missing
error_record_without_answer(query, e) ==
    [returned |-> TRUE,
     record |-> [query |-> query,
                 error |-> e,
                 final_answer |-> <<>>,
                 present |-> {"query", "error"}]]

\* agent.py lines 1158-1164
error_record(query, e) ==
    [returned |-> TRUE,
     record |-> [query |-> query,
                 error |-> e,
                 final_answer |-> <<"I encountered an error while processing your request.">>,
                 present |-> {"query", "error", "final_answer"}]]

\* app.py lines 1120-1123 and 1154-1157: session result of a finished run
session_result(s) ==
    [returned |-> TRUE,
     record |-> [final_answer |-> IF "final_answer" \in s.present
                                  THEN s.final_answer ELSE <<"Task completed">>,
                 error |-> <<>>,
                 present |-> {"final_answer", "error"}]]

\* app.py lines 1125-1130
session_error(e) ==
    [returned |-> TRUE,
     record |-> [final_answer |-> <<"Error: ">> \o e,
                 error |-> e,
                 present |-> {"final_answer", "error"}]]

EngineUnreachable == <<"Connection error.">>
GraphRecursionError == <<"Recursion limit reached without hitting a stop condition.">>

\* agent.py line 1149
langgraph_recursion_limit(max_iterations) == max_iterations * 4 + 10

(***************************************************************************)
(* State of one run.                                                       *)
(***************************************************************************)
VARIABLES
    driver,            \* "graph": run_agent; "streamlit": run_agent_step_by_step
    engine,            \* "structured": any response; "malformed": never an object
    pc,                \* the node (or loop position) that runs next
    state,             \* the AgentState threaded through the stages
    steps,             \* graph supersteps executed so far
    result,            \* what the entry point handed back
    current_loop,      \* StreamlitAgentRunner.current_loop
    confirmation_data, \* StreamlitAgentRunner.confirmation_data
    confirm_state,     \* the dict main() hands to handle_confirmation_response
    thinking_process,  \* StreamlitAgentRunner.thinking_process, mirrored in
                       \* st.session_state: loop, step and status of each event
    passes,            \* history: number of Perception passes
    calls,             \* history: tool calls of the current iteration
    human,             \* history: the human's answer at the gate
    streak             \* history: latest selection, its result, and how many
                       \* consecutive iterations produced exactly that pair

vars == <<driver, engine, pc, state, steps, result, current_loop,
          confirmation_data, confirm_state, thinking_process, passes, calls,
          human, streak>>

\* the step name each position of the Streamlit loop reports
StepName(node) ==
    CASE node = "perception_node" -> "Perception"
      [] node = "reasoning_node" -> "Reasoning"
      [] node = "action_node" -> "Action"
      [] node = "feedback_node" -> "Feedback"
      [] node = "awaiting_confirmation" -> "Confirmation"
      [] OTHER -> ""

\* app.py lines 375-394, the texts shown left out
add_thinking_step(process, loop_num, step_name, status) ==
    Append(process, [loop |-> loop_num, step |-> step_name, status |-> status])

NoStep == [loop |-> 0, step |-> "", status |-> "none"]

LastStep ==
    IF thinking_process = <<>> THEN NoStep
    ELSE thinking_process[Len(thinking_process)]

\* the Streamlit loop has reported the stage it is about to run
StepAnnounced ==
    driver = "streamlit" =>
        LastStep.status = "processing" /\ LastStep.step = StepName(pc)

NoData == [action_name |-> "", action_input |-> <<>>, draft_content |-> <<>>]
NoAnswer == [kind |-> "none"]
NoOutcome == [raised |-> FALSE, text |-> <<>>]
StreakCap == 4

Init ==
    /\ driver \in {"graph", "streamlit"}
    /\ \/ engine = "structured" /\ \E q \in Queries, m \in 1..MaxIter :
              state = initial_state(q, m)
       \/ engine = "malformed" /\ \E q \in Queries :
              state = initial_state(q, LongIter)
    /\ pc = "perception_node"
    /\ steps = 0
    /\ result = NotReturned
    /\ current_loop = 0
    /\ confirmation_data = NoData
    /\ confirm_state = initial_state(<<>>, 0)
    /\ thinking_process = <<>>
    /\ passes = 0
    /\ calls = <<>>
    /\ human = NoAnswer
    /\ streak = [name |-> "", result |-> <<>>, count |-> 0]

\* the graph still has a superstep left
WithinBudget ==
    driver = "graph" => steps < langgraph_recursion_limit(state.max_iterations)

Tick == IF driver = "graph" THEN steps + 1 ELSE steps

\* an exception leaves the stage: run_agent returns the error record, main()
\* of the Streamlit app stores an error result
Fail(e) ==
    /\ pc' = "failed"
    /\ result' = IF driver = "graph"
                 THEN error_record(state.query, e) ELSE session_error(e)
    /\ UNCHANGED <<driver, engine, thinking_process, state, steps, current_loop,
                   confirmation_data, confirm_state, passes, calls, human, streak>>

\* the loop ended: run_agent returns the state, main() stores the answer
Finish(s) ==
    IF driver = "graph" THEN returned_state(s) ELSE session_result(s)

Perception ==
    /\ pc = "perception_node"
    /\ WithinBudget
    /\ StepAnnounced
    /\ \E response \in PerceptionResponses :
         IF perception_consults_engine(state) /\ response.kind = "raise"
         THEN Fail(EngineUnreachable)
         ELSE /\ response.kind = "text"
              /\ response.prompt = perception_prompt(count_iteration(state))
              /\ state' = perception_node(state, response)
              /\ pc' = "reasoning_node"
              /\ steps' = Tick
              /\ current_loop' = IF driver = "streamlit"
                                 THEN state.iterations + 1 ELSE current_loop
              /\ passes' = passes + 1
              /\ calls' = <<>>
              /\ UNCHANGED <<driver, engine, thinking_process, result, confirmation_data,
                             confirm_state, human, streak>>

\* the Reasoning step with an edge that leaves the iteration once goal_met is set
Reasoning_leaves_when_complete ==
    /\ pc = "reasoning_node"
    /\ WithinBudget
    /\ StepAnnounced
    /\ \E response \in ReasoningResponses(engine) :
         IF response.kind = "raise"
         THEN Fail(EngineUnreachable)
         ELSE /\ state' = reasoning_node(state, response)
              /\ pc' = IF state'.goal_met /\ driver = "graph"
                       THEN "continue_flow_node" ELSE "action_node"
              /\ steps' = Tick
              /\ UNCHANGED <<driver, engine, thinking_process, result, current_loop,
                             confirmation_data, confirm_state, passes, calls,
                             human, streak>>

Reasoning ==
    /\ pc = "reasoning_node"
    /\ WithinBudget
    /\ StepAnnounced
    /\ \E response \in ReasoningResponses(engine) :
         IF response.kind = "raise"
         THEN Fail(EngineUnreachable)
         ELSE /\ state' = reasoning_node(state, response)
              /\ pc' = "action_node"
              /\ steps' = Tick
              /\ UNCHANGED <<driver, engine, thinking_process, result, current_loop,
                             confirmation_data, confirm_state, passes, calls,
                             human, streak>>

\* the pair (selection, result) of this iteration extends or restarts the streak
NextStreak(name, text) ==
    IF name = "" THEN [name |-> "", result |-> <<>>, count |-> 0]
    ELSE IF streak.count > 0 /\ streak.name = name /\ streak.result = text
    THEN [streak EXCEPT !.count = IF @ < StreakCap THEN @ + 1 ELSE @]
    ELSE [name |-> name, result |-> text, count |-> 1]

\* action_node, run by the graph and by the Streamlit loop for a tool that
\* needs no confirmation
Action ==
    /\ pc = "action_node"
    /\ WithinBudget
    /\ StepAnnounced
    /\ driver = "streamlit" => state.action_name \notin HUMAN_CONFIRMATION_TOOLS
    /\ \E outcome \in IF action_invokes_tool(state)
                      THEN ToolOutcomes(state.action_name, state.action_input)
                      ELSE {NoOutcome} :
         /\ state' = action_node(state, outcome)
         /\ calls' = IF action_invokes_tool(state)
                     THEN Append(calls, [tool |-> state.action_name,
                                         input |-> state.action_input,
                                         by |-> "action_node",
                                         answer |-> human])
                     ELSE calls
    /\ streak' = NextStreak(state.action_name, state'.action_result)
    /\ pc' = "feedback_node"
    /\ steps' = Tick
    /\ UNCHANGED <<driver, engine, thinking_process, result, current_loop, confirmation_data,
                   confirm_state, passes, human>>

\* app.py lines 468-492: the Streamlit loop asks for confirmation and returns
RequestConfirmation ==
    /\ pc = "action_node"
    /\ driver = "streamlit"
    /\ StepAnnounced
    /\ state.action_name \in HUMAN_CONFIRMATION_TOOLS
    /\ confirmation_data' =
         [action_name |-> state.action_name,
          action_input |-> state.action_input,
          draft_content |-> IF state.action_name = "send_email"
                            THEN draft_email(state.action_input)
                            ELSE <<"Action: ", state.action_name, "Input: ">>
                                 \o state.action_input]
    /\ pc' = "awaiting_confirmation"
    /\ UNCHANGED <<driver, engine, thinking_process, state, steps, result, current_loop,
                   confirm_state, passes, calls, human, streak>>

\* app.py line 424
loop_condition(s) == ~s.goal_met /\ s.iterations < s.max_iterations

Feedback ==
    /\ pc = "feedback_node"
    /\ WithinBudget
    /\ StepAnnounced
    /\ \E response \in FeedbackResponses(engine) :
         IF response.kind = "raise"
         THEN Fail(EngineUnreachable)
         ELSE /\ state' = feedback_node(state, response)
              /\ steps' = Tick
              /\ IF driver = "graph"
                 THEN pc' = should_confirm(state') /\ UNCHANGED result
                 ELSE IF loop_condition(state')
                 THEN pc' = "perception_node" /\ UNCHANGED result
                 ELSE pc' = "END" /\ result' = Finish(state')
              /\ UNCHANGED <<driver, engine, thinking_process, current_loop, confirmation_data,
                             confirm_state, passes, calls, human, streak>>

\* the edge out of human_confirmation_node and continue_flow_node
Route(s) ==
    /\ pc' = should_continue(s)
    /\ result' = IF should_continue(s) = "END" THEN Finish(s) ELSE result

ContinueFlow ==
    /\ pc = "continue_flow_node"
    /\ WithinBudget
    /\ steps' = Tick
    /\ Route(state)
    /\ UNCHANGED <<driver, engine, thinking_process, state, current_loop, confirmation_data,
                   confirm_state, passes, calls, human, streak>>

HumanConfirmation ==
    /\ pc = "human_confirmation_node"
    /\ WithinBudget
    /\ \E h \in HumanInputs :
         LET call == gate_call(state, h)
         IN  \E outcome \in IF call = <<>> THEN {NoOutcome}
                            ELSE ToolOutcomes(call[1].tool, call[1].input) :
               /\ state' = human_confirmation_node(state, h, outcome)
               /\ human' = h
               /\ calls' = IF call = <<>> THEN calls
                           ELSE Append(calls, [tool |-> call[1].tool,
                                               input |-> call[1].input,
                                               by |-> "human_confirmation_node",
                                               answer |-> h])
    /\ steps' = Tick
    /\ Route(state')
    /\ UNCHANGED <<driver, engine, thinking_process, current_loop, confirmation_data,
                   confirm_state, passes, streak>>

\* app.py lines 1134-1160: main() rebuilds a state and lets the runner resolve it
HandleConfirmationResponse ==
    /\ pc = "awaiting_confirmation"
    /\ StepAnnounced
    /\ \E response \in ConfirmationResponses :
         LET s == minimal_state(current_loop, confirmation_data)
             call == handler_call(s, response)
             h == [kind |-> "response", response |-> response]
         IN  \E outcome \in IF call = <<>> THEN {NoOutcome}
                            ELSE ToolOutcomes(call[1].tool, call[1].input) :
               /\ confirm_state' = handle_confirmation_response(response, s, outcome)
               /\ human' = h
               /\ calls' = IF call = <<>> THEN calls
                           ELSE Append(calls, [tool |-> call[1].tool,
                                               input |-> call[1].input,
                                               by |-> "handle_confirmation_response",
                                               answer |-> h])
    /\ confirmation_data' = NoData
    /\ result' = session_result(confirm_state')
    /\ pc' = "END"
    \* app.py lines 608-613: a modify response is reported before the tool runs
    /\ thinking_process' =
         IF StartsWith(human'.response, "modify:")
         THEN add_thinking_step(thinking_process, LastStep.loop,
                                "Confirmation", "processing")
         ELSE thinking_process
    /\ UNCHANGED <<driver, engine, state, steps, current_loop, passes, streak>>

\* the handler reports an error when the tool raised, the action is unknown
\* or the response is not one it knows
HandlerStatus ==
    IF \/ /\ Len(confirm_state.action_result) >= 2
          /\ confirm_state.action_result[2] \in {" executing ", " executing modified "}
       \/ StartsWith(confirm_state.action_result, "Unknown action: ")
       \/ StartsWith(confirm_state.action_result, "Unexpected response: ")
    THEN "error"
    ELSE "completed"

\* the event sink with the loop number also kept in the AgentState
AddThinkingStep_counts_in_state ==
    /\ driver = "streamlit"
    /\ pc # "failed"
    /\ IF LastStep.status = "processing"
       THEN /\ LastStep.step # StepName(pc)
            /\ thinking_process' =
                 add_thinking_step(thinking_process, LastStep.loop, LastStep.step,
                     IF pc = "awaiting_confirmation" THEN "waiting"
                     ELSE IF LastStep.step = "Confirmation" THEN HandlerStatus
                     ELSE "completed")
            /\ state' = state
       ELSE /\ StepName(pc) # ""
            /\ thinking_process' =
                 add_thinking_step(thinking_process,
                     IF pc = "perception_node" THEN state.iterations + 1
                     ELSE current_loop,
                     StepName(pc), "processing")
            /\ state' = Put(state, "iterations",
                            IF pc = "perception_node" THEN state.iterations + 1
                            ELSE current_loop)
    /\ UNCHANGED <<driver, engine, pc, steps, result, current_loop,
                   confirmation_data, confirm_state, passes, calls, human, streak>>

\* app.py lines 429-526 and 537-684: the runner reports a step before the
\* stage runs ("processing") and after it returned ("completed", "waiting"
\* after a confirmation request, "error" from the handler)
AddThinkingStep ==
    /\ driver = "streamlit"
    /\ pc # "failed"
    /\ IF LastStep.status = "processing"
       THEN /\ LastStep.step # StepName(pc)
            /\ thinking_process' =
                 add_thinking_step(thinking_process, LastStep.loop, LastStep.step,
                     IF pc = "awaiting_confirmation" THEN "waiting"
                     ELSE IF LastStep.step = "Confirmation" THEN HandlerStatus
                     ELSE "completed")
       ELSE /\ StepName(pc) # ""
            /\ thinking_process' =
                 add_thinking_step(thinking_process,
                     IF pc = "perception_node" THEN state.iterations + 1
                     ELSE current_loop,
                     StepName(pc), "processing")
    /\ UNCHANGED <<driver, engine, pc, state, steps, result, current_loop,
                   confirmation_data, confirm_state, passes, calls, human, streak>>

\* the graph has used its supersteps and a node is still due
RecursionLimit ==
    /\ driver = "graph"
    /\ pc \notin {"END", "failed"}
    /\ ~WithinBudget
    /\ Fail(GraphRecursionError)

Next ==
    \/ Perception
    \/ Reasoning
    \/ Action
    \/ RequestConfirmation
    \/ Feedback
    \/ ContinueFlow
    \/ HumanConfirmation
    \/ HandleConfirmationResponse
    \/ AddThinkingStep
    \/ RecursionLimit

Spec == Init /\ [][Next]_vars

\* every stage call returns and the human answers: a due step is taken
FairSpec == Spec /\ WF_vars(Next)

(***************************************************************************)
(* Properties.                                                             *)
(***************************************************************************)
Ended == pc \in {"END", "failed"}

\* the state the Confirmation Gate worked on
GateState == IF driver = "streamlit" THEN confirm_state ELSE state

IsConfirm(h) ==
    \/ h.kind = "line" /\ Lower(h.line) \in {"y", "yes"}
    \/ h.kind = "response" /\ h.response = <<"confirm">>

IsCancel(h) ==
    \/ h.kind = "line" /\ Lower(h.line) \in {"n", "no"}
    \/ h.kind = "response" /\ h.response = <<"cancel">>

IsModify(h) ==
    \/ h.kind = "line" /\ Lower(h.line) \in {"m", "modify"}
    \/ h.kind = "response" /\ StartsWith(h.response, "modify:")

\* C1: the loop ends within max_iterations Perception passes: the number of
\* passes never exceeds max_iterations, Perception is never due once
\* iterations >= max_iterations, iterations never decreases, and every run
\* reaches its end.
C1_TerminatesWithinMaxIterations ==
    /\ [](passes <= state.max_iterations)
    /\ [](pc = "perception_node" => state.iterations < state.max_iterations)
    /\ [][state'.iterations >= state.iterations]_vars
    /\ <>Ended

C1_Witness ==
    /\ pc = "END"
    /\ passes = state.max_iterations
    /\ state.iterations = state.max_iterations
    /\ state.max_iterations >= 2

\* C2: a tool of the sensitive-action set is called only by the gate, and only
\* when the human's answer has been received and is confirm or modify; with
\* no answer yet, or any other answer, no such call exists.
C2_NoSilentConfirmationBypass ==
    \A i \in DOMAIN calls :
        calls[i].tool \in HUMAN_CONFIRMATION_TOOLS =>
            /\ calls[i].by # "action_node"
            /\ human # NoAnswer
            /\ calls[i].answer = human
            /\ IsConfirm(human) \/ IsModify(human)

C2_Witness ==
    /\ Len(calls) = 1
    /\ calls[1].tool = "send_email"
    /\ calls[1].by = "human_confirmation_node"
    /\ IsConfirm(human)
    /\ state.user_confirmation = "y"

\* C3: whenever goal_met is true, final_answer is non-empty.
C3_GoalMetHasFinalAnswer ==
    /\ state.goal_met => state.final_answer # <<>>
    /\ confirm_state.goal_met => confirm_state.final_answer # <<>>

\* C4: once goal_met is true no later step sets it back to false, and no
\* further Perception pass runs.
C4_GoalMetMonotonic ==
    [][state.goal_met => (state'.goal_met /\ passes' = passes)]_vars

IsLimitMessage(final_answer, s) ==
    /\ \/ StartsWith(final_answer, "I reached the iteration limit (")
       \/ StartsWith(final_answer,
              "I wasn't able to fully answer your question within the iteration limit (")
    /\ final_answer[2] = Str(s.max_iterations)
    /\ Embeds(final_answer, s.action_result)

\* C5: a Feedback pass entered with iterations >= max_iterations ends with
\* goal_met true, and its final_answer is the iteration-limit message holding
\* action_result unless the pass itself judged the goal met (a parsed verdict,
\* or the fallback recognising a successful calculation, search or send).
C5_CeilingForcesCompletion ==
    [][(/\ pc = "feedback_node"
        /\ pc' \notin {"feedback_node", "failed"}
        /\ state.iterations >= state.max_iterations)
       => /\ state'.goal_met
          /\ \/ IsLimitMessage(state'.final_answer, state')
             \/ state'.feedback \in
                  {<<"Successfully executed calculation">>,
                   <<"Successfully retrieved comprehensive web search results">>,
                   <<"Email sent successfully">>,
                   <<"assessment">>, <<>>}]_vars

\* C6: after a confirm, cancel or modify answer the gate has left goal_met
\* true, on the console and in the Streamlit handler.
C6_GateLeavesGoalMet ==
    (IsConfirm(human) \/ IsCancel(human) \/ IsModify(human)) => GateState.goal_met

C6_Witness ==
    /\ IsModify(human)
    /\ human.kind = "line"
    /\ human.modify.kind = "fields"
    /\ state.action_result = <<"Error getting user confirmation: ", "exception text">>
    /\ state.iterations < state.max_iterations
    /\ state.goal_met

FallbackPlan == <<"Fallback reasoning due to parsing error">>

\* C7: when the same action with the same result has been seen on three
\* consecutive iterations, fallback routing does not select that action again.
C7_FallbackBreaksLoop ==
    (/\ pc = "action_node"
     /\ state.plan = FallbackPlan
     /\ streak.count >= 3)
    => state.action_name # streak.name \/ state.goal_met

\* C8: every terminated run hands back a record whose final_answer is set and
\* non-empty.
C8_AnswerAlwaysDelivered ==
    Ended => /\ result.returned
             /\ "final_answer" \in result.record.present
             /\ result.record.final_answer # <<>>

\* C9: a run_agent run in which no stage raises ends at the router's
\* termination condition with the final AgentState returned, not an error
\* record: the step budget never cuts the run short.
C9_TerminationReturnsState ==
    (/\ driver = "graph"
     /\ Ended
     /\ result # error_record(state.query, EngineUnreachable))
    => /\ result = returned_state(state)
       /\ should_continue(state) = "END"

\* C10: when a stage fails, run_agent hands back an error record holding the
\* query, the error and a user-facing final_answer, and nothing else.
C10_ErrorRecordOnFailure ==
    (driver = "graph" /\ pc = "failed")
    => /\ result.returned
       /\ result.record.present = {"query", "error", "final_answer"}
       /\ result.record.query = state.query
       /\ result.record.final_answer # <<>>

C10_Witness ==
    /\ driver = "graph"
    /\ pc = "failed"
    /\ result.record.error = EngineUnreachable
    /\ state.iterations = 2
    /\ state.action_result # <<>>
    /\ state.feedback # <<>>

\* C11: once the Confirmation Gate has taken the human's answer the run is at
\* its end, whatever the answer and whatever the tool did: the router (or the
\* Streamlit handler) has ended it, and no later step changes the AgentState
\* or starts another Perception pass.
C11_GateEndsRun ==
    /\ [](human # NoAnswer => pc = "END")
    /\ [][human # NoAnswer => (state' = state /\ passes' = passes /\ pc' = pc)]_vars

C11_Witness ==
    /\ driver = "graph"
    /\ pc = "END"
    /\ human.kind = "line"
    /\ human.line = "maybe"
    /\ state.iterations < state.max_iterations
    /\ state.action_result = <<"Invalid confirmation input, action cancelled">>

NoSensitiveCall == \A i \in DOMAIN calls : calls[i].tool \notin HUMAN_CONFIRMATION_TOOLS

\* C12: after a cancel answer to a pending send the gate's state holds
\* action_result "Action cancelled by user", goal_met true, the cancellation
\* notice as final_answer, confirmation_pending and needs_confirmation false,
\* and the send tool has not been called.
C12_CancelResolvesWithoutSend ==
    IsCancel(human) =>
        /\ GateState.action_name = "send_email"
        /\ GateState.action_result = <<"Action cancelled by user">>
        /\ GateState.goal_met
        /\ GateState.final_answer = <<"Action was cancelled at your request.">>
        /\ ~GateState.confirmation_pending
        /\ ~GateState.needs_confirmation
        /\ confirmation_data = NoData
        /\ NoSensitiveCall

C12_Witness ==
    /\ IsCancel(human)
    /\ driver = "graph"
    /\ state.user_confirmation = "no"
    /\ state.draft_content # <<>>
    /\ state.action_name = "send_email"
    /\ calls = <<>>

\* an answer that is none of confirm, cancel, modify: an unrecognised string,
\* or an interrupt or error while input is read, also while the modified
\* fields are collected
IsOtherInput(h) ==
    \/ h.kind \in {"KeyboardInterrupt", "EOFError"}
    \/ /\ h.kind = "line"
       /\ Lower(h.line) \notin {"y", "yes", "n", "no", "m", "modify"}
    \/ /\ h.kind = "line"
       /\ Lower(h.line) \in {"m", "modify"}
       /\ h.modify.kind \in {"KeyboardInterrupt", "EOFError"}
    \/ /\ h.kind = "response"
       /\ h.response \notin {<<"confirm">>, <<"cancel">>}
       /\ ~StartsWith(h.response, "modify:")

\* C13: after any answer other than confirm, cancel or modify the pending
\* tool has not been called, goal_met is true, final_answer is non-empty and
\* confirmation_pending is false.
C13_OtherInputCancels ==
    IsOtherInput(human) =>
        /\ calls = <<>>
        /\ GateState.goal_met
        /\ GateState.final_answer # <<>>
        /\ ~GateState.confirmation_pending

C13_Witness ==
    /\ IsOtherInput(human)
    /\ human.kind = "line"
    /\ human.line = "modify"
    /\ human.modify.kind = "EOFError"
    /\ state.user_confirmation = "modify"
    /\ state.final_answer = <<"Action was cancelled due to an error.">>

\* the modify answer carries a replacement: the Streamlit form always does, the
\* console only when the three fields were read and the recipient is not blank
SuppliesRecipient(h) ==
    \/ h.kind = "response"
    \/ /\ h.kind = "line"
       /\ h.modify.kind = "fields"
       /\ Strip(h.modify.new_to) # ""

ReplacementInput ==
    IF human.kind = "response"
    THEN Tail(human.response)
    ELSE <<"to:", human.modify.new_to, "|subject:", human.modify.new_subject,
           "|body:", human.modify.new_body>>

\* the gate's action_result is what the tool returned, not an error frame
ToolReturned ==
    /\ ~StartsWith(GateState.action_result, "Error getting user confirmation: ")
    /\ ~(Len(GateState.action_result) >= 2
         /\ GateState.action_result[2] = " executing modified ")

ModifyLikeConfirm ==
    /\ GateState.goal_met
    /\ ToolReturned =>
         GateState.final_answer \in
           {<<"Modified email sent: ">> \o GateState.action_result,
            <<"Action completed successfully with modifications: ">>
              \o GateState.action_result}

\* C14 as stated: after a modify answer the pending tool has been called
\* exactly once, with the replacement input and not the original action_input,
\* goal_met is true and final_answer is built from the tool's result.
C14_ModifyInvokesOnce ==
    IsModify(human) =>
        /\ Len(calls) = 1
        /\ calls[1].tool = "send_email"
        /\ calls[1].input = ReplacementInput
        /\ calls[1].input # state.action_input
        /\ ModifyLikeConfirm

\* C14 amended: after a modify answer that supplies a recipient the pending
\* tool has been called exactly once, with the replacement input and not the
\* original action_input, goal_met is true and final_answer is built from the
\* result the tool returned; a modify answer without a recipient (blank, or
\* the reading interrupted) calls no tool and still leaves goal_met true.
C14_ModifyWithRecipientInvokesOnce ==
    IsModify(human) =>
        IF SuppliesRecipient(human)
        THEN /\ Len(calls) = 1
             /\ calls[1].tool = "send_email"
             /\ calls[1].input = ReplacementInput
             /\ calls[1].input # state.action_input
             /\ ModifyLikeConfirm
        ELSE calls = <<>> /\ GateState.goal_met

C14_Witness ==
    /\ IsModify(human)
    /\ human.kind = "line"
    /\ SuppliesRecipient(human)
    /\ calls[1].input = ModifiedEmail
    /\ state.action_input # ModifiedEmail
    /\ StartsWith(state.final_answer, "Modified email sent: ")
    /\ state.action_result = <<"Email ", "successfully sent", " to ", "carol@example.com">>

\* the plan text each path of reasoning_node writes
ParsedPlan == <<"Intent: ", "analysis", "Reasoning: ", "rationale">>
CompletePlan == <<"Task appears to be already complete based on previous results">>

ReasoningPass == pc = "reasoning_node" /\ pc' = "action_node"

\* C15 as stated: a Reasoning pass leaves action_name empty only on the
\* completion short-circuit; after a successful parse and after fallback
\* routing action_name is non-empty.
C15_EmptyOnlyOnShortCircuit ==
    [][ReasoningPass =>
         /\ state'.action_name = "" => state'.plan = CompletePlan
         /\ state'.plan \in {ParsedPlan, FallbackPlan} => state'.action_name # ""]_vars

\* C15 amended: a Reasoning pass leaves action_name empty only on the
\* completion short-circuit or after a successful parse of an object that
\* names no action; after fallback routing action_name is non-empty.
C15_EmptyOnlyOnShortCircuitOrParsedEmpty ==
    [][ReasoningPass =>
         /\ state'.action_name = "" => state'.plan \in {CompletePlan, ParsedPlan}
         /\ state'.plan = FallbackPlan => state'.action_name # ""]_vars

C15_Witness ==
    /\ pc = "action_node"
    /\ state.plan = ParsedPlan
    /\ state.action_name = ""
    /\ state.action_history = <<>>
    /\ ~state.goal_met

Reasoned(s) == "plan" \in s.present

\* C16 as stated: from the end of a Reasoning pass until the run ends, also
\* after the gate has resolved, needs_confirmation is true exactly when
\* action_name is in the sensitive-action set.
C16_NeedsConfirmationIffSensitive ==
    Reasoned(state) =>
        (state.needs_confirmation <=> state.action_name \in HUMAN_CONFIRMATION_TOOLS)

\* C16 amended: from the end of a Reasoning pass until the gate takes the
\* human's answer, needs_confirmation is true exactly when action_name is in
\* the sensitive-action set; once the gate has resolved, needs_confirmation is
\* false while action_name still names the sensitive tool.
C16_NeedsConfirmationIffSensitiveUntilGate ==
    /\ (Reasoned(state) /\ human = NoAnswer) =>
           (state.needs_confirmation <=> state.action_name \in HUMAN_CONFIRMATION_TOOLS)
    /\ human # NoAnswer =>
           /\ ~GateState.needs_confirmation
           /\ GateState.action_name \in HUMAN_CONFIRMATION_TOOLS

C16_Witness ==
    /\ driver = "graph"
    /\ IsConfirm(human)
    /\ state.action_name = "send_email"
    /\ ~state.needs_confirmation
    /\ state.plan = ParsedPlan
    /\ StartsWith(state.final_answer, "Action completed successfully: ")

Registered(name) == name = "" \/ name \in tools

\* C17 as stated: in every reachable state action_name is empty or the id of
\* a registered tool.
C17_ActionNameRegistered ==
    Registered(state.action_name) /\ Registered(confirm_state.action_name)

\* C17 amended: action_name is empty or a registered tool id unless a parsed
\* engine object named another tool; such a name is stored as it came, and the
\* Action stage then calls no tool and records "Unknown action: <name>". No
\* tool call is ever made under an unregistered name.
C17_UnregisteredNameNeverInvoked ==
    /\ [](state.plan # ParsedPlan => Registered(state.action_name))
    /\ [](\A i \in DOMAIN calls : calls[i].tool \in tools)
    /\ [][(/\ pc = "action_node"
           /\ pc' = "feedback_node"
           /\ ~Registered(state.action_name))
          => /\ calls' = calls
             /\ state'.action_result = <<"Unknown action: ", state.action_name>>]_vars

C17_Witness ==
    /\ pc = "feedback_node"
    /\ state.action_name = "translate_text"
    /\ state.action_history = <<"translate_text">>
    /\ state.action_result = <<"Unknown action: ", "translate_text">>
    /\ calls = <<>>

\* the router decides: the step out of the gate or out of continue_flow_node
RouterStep ==
    /\ driver = "graph"
    /\ pc \in {"human_confirmation_node", "continue_flow_node"}
    /\ pc' \notin {pc, "failed"}

\* C18: the router sends the run to Perception exactly when goal_met is false
\* and iterations < max_iterations, and ends it otherwise, after the gate and
\* after the no-confirmation path alike.
C18_RouterDecision ==
    [][RouterStep =>
         pc' = IF ~state'.goal_met /\ state'.iterations < state'.max_iterations
               THEN "perception_node"
               ELSE "END"]_vars

C18_Witness ==
    /\ driver = "graph"
    /\ pc = "perception_node"
    /\ passes = 1
    /\ state.iterations = 1
    /\ state.max_iterations = 2
    /\ ~state.goal_met
    /\ state.feedback # <<>>

\* the step out of Feedback in the compiled graph
FeedbackPass ==
    /\ driver = "graph"
    /\ pc = "feedback_node"
    /\ pc' \notin {pc, "failed"}

\* C19: after a Feedback pass the run goes to the Confirmation Gate exactly
\* when needs_confirmation and confirmation_pending are both true, and to the
\* continuation node otherwise, whatever goal_met and iterations are.
C19_GateRouting ==
    [][FeedbackPass =>
         pc' = IF state'.needs_confirmation /\ state'.confirmation_pending
               THEN "human_confirmation_node"
               ELSE "continue_flow_node"]_vars

C19_Witness ==
    /\ driver = "graph"
    /\ pc = "human_confirmation_node"
    /\ state.goal_met
    /\ state.iterations >= state.max_iterations
    /\ state.needs_confirmation
    /\ state.confirmation_pending

PerceptionPass == passes' = passes + 1

\* C20: a Perception pass raises iterations by exactly one, also when it
\* returns early on an empty query or on the search short-circuit, and sets it
\* to 0 when the field is absent; every other step leaves iterations as it is,
\* and the Streamlit handler keeps the count it was handed.
C20_IterationsCountPerceptionPasses ==
    [][/\ state'.iterations =
            IF PerceptionPass
            THEN IF "iterations" \in state.present
                 THEN state.iterations + 1
                 ELSE 0
            ELSE state.iterations
       /\ (pc = "awaiting_confirmation" /\ pc' = "END")
            => confirm_state'.iterations =
                 minimal_state(current_loop, confirmation_data).iterations]_vars

C20_Witness ==
    /\ pc = "reasoning_node"
    /\ StartsWith(state.perception,
                  "Task completed: Successfully found information about '")
    /\ state.iterations = 2
    /\ passes = 2
    /\ state.action_name = "search_web"

\* C21: a Reasoning pass that takes the completion short-circuit sets goal_met
\* with a final_answer derived from the last action_result, and in the rest of
\* that iteration neither Action nor Feedback runs: action_result, feedback
\* and goal_met are not written again.
C21_ShortCircuitSkipsActionFeedback ==
    /\ [][(ReasoningPass /\ state'.plan = CompletePlan) =>
            /\ state'.goal_met
            /\ state'.final_answer =
                 IF state.action_result # <<>>
                 THEN <<"Based on the previous results: ">> \o state.action_result
                 ELSE <<"Task completed based on previous analysis">>]_vars
    /\ [][(state.plan = CompletePlan /\ pc \in {"action_node", "feedback_node"}) =>
            /\ state'.action_result = state.action_result
            /\ state'.feedback = state.feedback
            /\ state'.goal_met = state.goal_met]_vars

\* the tool the claim names for a query
FallbackTool(query) ==
    IF \/ \E i \in DOMAIN query : Lower(query[i]) = "calculate"
       \/ \E i \in DOMAIN query : query[i] \in {"+", "-", "*", "/", "^"}
    THEN "run_python"
    ELSE IF \E i \in DOMAIN query : Lower(query[i]) = "email"
    THEN "draft_email"
    ELSE "search_web"

\* C22: a Reasoning pass that falls back to routing selects the tool the query
\* alone determines (run_python for "calculate" or an arithmetic operator,
\* else draft_email for "email", else search_web), with the raw query as
\* action_input and needs_confirmation false: never a sensitive tool.
C22_FallbackRoutingByQuery ==
    [][(ReasoningPass /\ state'.plan = FallbackPlan) =>
         /\ state'.action_name = FallbackTool(state.query)
         /\ state'.action_input = state.query
         /\ ~state'.needs_confirmation
         /\ state'.action_name \notin HUMAN_CONFIRMATION_TOOLS]_vars

C22_Witness ==
    /\ pc = "action_node"
    /\ state.plan = FallbackPlan
    /\ state.query = <<"Send an ", "Email", " to bob">>
    /\ state.action_name = "draft_email"
    /\ state.action_input = state.query
    /\ ~state.needs_confirmation

RawVerdict == <<"Looks fine to me">>

\* a Feedback pass whose verdict could not be parsed: it leaves one of the
\* fallback's own feedback texts, never a parsed one
FeedbackFallbackPass ==
    /\ pc = "feedback_node"
    /\ pc' \notin {"feedback_node", "failed"}
    /\ state'.feedback \notin {<<>>, <<"assessment">>}

\* the case of the fallback a state falls under; `filled` asks the calculation
\* and the draft result to be non-empty as well as non-error
FallbackCase(s, filled) ==
    IF /\ s.action_name = "run_python"
       /\ ~StartsWith(s.action_result, "Error")
       /\ filled => s.action_result # <<>>
    THEN "calculation"
    ELSE IF /\ s.action_name = "search_web"
            /\ \E i \in DOMAIN s.action_result : s.action_result[i] = "Web Search Results"
    THEN "search"
    ELSE IF /\ s.action_name = "draft_email"
            /\ ~StartsWith(s.action_result, "Error")
            /\ filled => s.action_result # <<>>
    THEN "draft"
    ELSE IF /\ s.action_name = "send_email"
            /\ \E i \in DOMAIN s.action_result :
                   Lower(s.action_result[i]) = "successfully sent"
    THEN "send"
    ELSE "other"

\* what the four judged cases leave in the state t after the pass from s
JudgedOutcome(s, t, case) ==
    /\ case = "calculation" =>
         /\ t.goal_met
         /\ t.final_answer # s.action_result
         /\ Embeds(t.final_answer, s.action_result)
    /\ case = "search" => t.goal_met /\ t.final_answer = s.action_result
    /\ case = "draft" =>
         /\ ~t.goal_met
         /\ t.next_step_needed = <<"Review the draft and send the email if satisfied">>
    /\ case = "send" => t.goal_met /\ t.final_answer = s.action_result

\* C23 as stated: on a parse failure of the verdict, a non-error calculation
\* gives goal_met with a final_answer wrapping the result, a search result
\* with the success marker gives goal_met with final_answer = action_result,
\* a non-error draft gives goal_met false with the review-and-send hint, a
\* send result with the success phrase gives goal_met with final_answer =
\* action_result, and anything else gives goal_met false with feedback = the
\* engine's raw text.
C23_FeedbackFallbackByActionType ==
    [][FeedbackFallbackPass =>
         /\ JudgedOutcome(state, state', FallbackCase(state, FALSE))
         /\ FallbackCase(state, FALSE) = "other" =>
              ~state'.goal_met /\ state'.feedback = RawVerdict]_vars

\* C23 amended: the calculation and draft cases ask for a non-empty result as
\* well as a non-error one, and in the last case (anything else) feedback is
\* the engine's raw text and goal_met is false only below the iteration
\* ceiling: at iterations >= max_iterations that case ends with goal_met true
\* and the iteration-limit message; the four judged cases are as stated, at
\* the ceiling too.
C23_FeedbackFallbackByActionTypeAndCeiling ==
    [][FeedbackFallbackPass =>
         /\ JudgedOutcome(state, state', FallbackCase(state, TRUE))
         /\ FallbackCase(state, TRUE) = "other" =>
              /\ state'.feedback = RawVerdict
              /\ IF state.iterations >= state.max_iterations
                 THEN state'.goal_met /\ IsLimitMessage(state'.final_answer, state')
                 ELSE ~state'.goal_met]_vars

C23_Witness ==
    /\ pc \in {"continue_flow_node", "END"}
    /\ state.action_name = "run_python"
    /\ state.action_result = <<>>
    /\ state.feedback = RawVerdict
    /\ state.iterations >= state.max_iterations
    /\ state.goal_met
    /\ IsLimitMessage(state.final_answer, state)

\* C24: with an empty query Perception leaves the error marker in perception
\* (the engine is not consulted, nothing is raised), and the run that then
\* passes through Reasoning, Action and Feedback ends with goal_met true.
C24_EmptyQueryEndsWithGoalMet ==
    state.query = <<>> =>
        /\ passes >= 1 => state.perception = <<"No query provided">>
        /\ pc = "END" => (state.goal_met \/ (human # NoAnswer /\ GateState.goal_met))

\* the Action stage ran: the step out of action_node that is not the Streamlit
\* runner's early return and not the graph's step budget
ActionPass ==
    /\ pc = "action_node"
    /\ pc' \notin {"action_node", "awaiting_confirmation"}
    /\ WithinBudget

\* C25: an Action pass entered with needs_confirmation true and no affirmative
\* confirmation calls no tool, sets action_result to "Waiting for user
\* confirmation" and changes no other field of the AgentState.
C25_WaitingFrame ==
    [][(/\ ActionPass
        /\ state.needs_confirmation
        /\ state.user_confirmation \notin {"y", "yes"})
       => /\ calls' = calls
          /\ state' = [state EXCEPT
                         !.action_result = <<"Waiting for user confirmation">>,
                         !.present = @ \cup {"action_result"}]]_vars

C25_Witness ==
    /\ pc = "feedback_node"
    /\ state.action_name = "send_email"
    /\ state.needs_confirmation
    /\ state.confirmation_pending
    /\ state.user_confirmation = ""
    /\ state.action_result = <<"Waiting for user confirmation">>
    /\ state.action_input = WellFormedEmail
    /\ calls = <<>>

\* C26: an Action pass always hands over to Feedback with no error record: a
\* registered tool leaves either the text it returned or, when it raised, an
\* error text naming the tool and the exception; an unregistered name leaves
\* "Unknown action: <name>" and no tool call.
C26_ActionNeverPropagates ==
    [][ActionPass =>
         /\ pc' = "feedback_node"
         /\ result' = result
         /\ (state.action_name \in tools /\ ~state.needs_confirmation) =>
              /\ Len(calls') = Len(calls) + 1
              /\ \/ /\ state'.action_result =
                         <<"Error", " executing ", state.action_name, ": ", "tool failure">>
                 \/ \E outcome \in ToolOutcomes(state.action_name, state.action_input) :
                         ~outcome.raised /\ state'.action_result = outcome.text
         /\ (state.action_name # "" /\ state.action_name \notin tools) =>
              /\ calls' = calls
              /\ state'.action_result = <<"Unknown action: ", state.action_name>>]_vars

C26_Witness ==
    /\ pc = "feedback_node"
    /\ state.action_name = "search_web"
    /\ state.action_result = <<"Error", " executing ", "search_web", ": ", "tool failure">>
    /\ Len(calls) = 1
    /\ result = NotReturned

AtGate == pc \in {"human_confirmation_node", "awaiting_confirmation"}

\* C27: the gate is entered only with needs_confirmation and
\* confirmation_pending set by the successful parse of the same iteration, so
\* with a sensitive action_name; confirmation_pending is raised only by such a
\* Reasoning pass, no Perception pass follows while it is true, only the gate
\* lowers it, it is false once the gate has resolved, and it always implies
\* needs_confirmation.
C27_GateEntryAndPending ==
    /\ [](AtGate => /\ state.needs_confirmation
                    /\ state.confirmation_pending
                    /\ state.action_name \in HUMAN_CONFIRMATION_TOOLS
                    /\ state.plan = ParsedPlan)
    /\ [][(~state.confirmation_pending /\ state'.confirmation_pending)
            => ReasoningPass /\ state'.plan = ParsedPlan]_vars
    /\ [][state.confirmation_pending => passes' = passes]_vars
    /\ [][(state.confirmation_pending /\ ~state'.confirmation_pending)
            => pc = "human_confirmation_node"]_vars
    /\ [](human # NoAnswer => ~GateState.confirmation_pending)
    /\ [](state.confirmation_pending => state.needs_confirmation)
    /\ [](confirm_state.confirmation_pending => confirm_state.needs_confirmation)

C27_Witness ==
    /\ pc = "human_confirmation_node"
    /\ state.needs_confirmation
    /\ state.confirmation_pending
    /\ state.iterations = 2
    /\ state.action_history = <<"search_web", "send_email">>
    /\ human = NoAnswer

\* C28: action_history only grows, and only by a Reasoning pass that ends on
\* the parse-success path with a non-empty action_name, which appends exactly
\* that name; a pass that ends with an empty action_name, on the completion
\* short-circuit or on fallback routing, and every other step, leave it as it
\* is.
C28_ActionHistoryAppendOnly ==
    [][state'.action_history =
         IF ReasoningPass /\ state'.plan = ParsedPlan /\ state'.action_name # ""
         THEN Append(state.action_history, state'.action_name)
         ELSE state.action_history]_vars

\* C29: every step that changes final_answer leaves goal_met true, in the
\* AgentState of the run and in the one the Streamlit handler works on.
C29_FinalAnswerOnlyWithGoalMet ==
    [][/\ state'.final_answer # state.final_answer => state'.goal_met
       /\ confirm_state'.final_answer # confirm_state.final_answer
            => confirm_state'.goal_met]_vars

C29_Witness ==
    /\ pc = "action_node"
    /\ state.plan = CompletePlan
    /\ state.final_answer = <<"Task completed based on previous analysis">>
    /\ state.goal_met
    /\ state.iterations = 1

\* C30: action_result changes only in a step of the Action stage or of the
\* gate, feedback only in a step of the Feedback stage, query and
\* max_iterations never; the Streamlit handler, the gate of that driver,
\* writes no feedback.
C30_FieldOwnership ==
    [][/\ state'.action_result # state.action_result
            => pc \in {"action_node", "human_confirmation_node"}
       /\ state'.feedback # state.feedback => pc = "feedback_node"
       /\ state'.query = state.query
       /\ state'.max_iterations = state.max_iterations
       /\ confirm_state' # confirm_state
            => /\ pc = "awaiting_confirmation"
               /\ confirm_state'.feedback = confirm_state.feedback]_vars

C30_Witness ==
    /\ pc = "action_node"
    /\ state.iterations = 2
    /\ state.action_result = <<"Search completed", " but no results were found">>
    /\ state.feedback = <<"assessment">>
    /\ state.action_name = "run_python"

\* the refinement condition of the claim, on the fields before the pass and
\* the iterations value after it
RefinementDue ==
    /\ state'.iterations > 0
    /\ state.action_name # ""
    /\ state.action_result # <<>>
    /\ state.feedback # <<>>
    /\ ~state.goal_met

SearchMarked ==
    /\ state.action_name = "search_web"
    /\ \E i \in DOMAIN state.action_result : state.action_result[i] = "Web Search Results"

\* C31: a Perception pass on a non-empty query refines exactly when, after the
\* increment, iterations > 0 and the prior action_name, action_result and
\* feedback are non-empty and goal_met is false, and decomposes the query
\* otherwise; when it refines after a search_web result holding the success
\* marker it writes the fixed task-completed text, and such a pass cannot fail
\* on the engine.
C31_PerceptionMode ==
    /\ [][(PerceptionPass /\ state.query # <<>>) =>
            state'.perception =
              IF RefinementDue /\ SearchMarked
              THEN <<"Task completed: Successfully found information about '">>
                   \o state.query \o <<"' through web search.">>
              ELSE IF RefinementDue
              THEN <<"refined task description">>
              ELSE <<"task description">>]_vars
    /\ [][(/\ pc = "perception_node"
           /\ WithinBudget
           /\ state.action_name # "" /\ state.feedback # <<>> /\ ~state.goal_met
           /\ SearchMarked)
          => pc' # "failed"]_vars

C31_Witness ==
    /\ pc = "reasoning_node"
    /\ state.perception = <<"refined task description">>
    /\ state.iterations = 2
    /\ state.action_name = "run_python"
    /\ state.feedback = <<"assessment">>

\* the edges of the compiled graph
GraphSuccessors(node) ==
    CASE node = "perception_node" -> {"reasoning_node"}
      [] node = "reasoning_node" -> {"action_node"}
      [] node = "action_node" -> {"feedback_node"}
      [] node = "feedback_node" -> {"human_confirmation_node", "continue_flow_node"}
      [] node = "human_confirmation_node" -> {"perception_node", "END"}
      [] node = "continue_flow_node" -> {"perception_node", "END"}
      [] OTHER -> {}

\* C32: in the compiled graph every step runs one stage and hands over to the
\* next one of the cycle Perception, Reasoning, Action, Feedback, gate or
\* pass-through, router: a step either moves along that cycle, counting one
\* superstep, or ends the run with an error.
C32_StageOrder ==
    [][driver = "graph" =>
         \/ pc' = "failed" /\ state' = state
         \/ /\ pc' \in GraphSuccessors(pc)
            /\ steps' = steps + 1]_vars

C32_Witness ==
    /\ driver = "graph"
    /\ pc = "perception_node"
    /\ passes = 1
    /\ steps = 5
    /\ state.action_result # <<>>
    /\ state.feedback # <<>>

\* C33: within one iteration at most one tool call is made, by the Action
\* stage or by the gate.
C33_OneInvocationPerIteration ==
    /\ Len(calls) <= 1
    /\ \A i \in DOMAIN calls :
         calls[i].by \in {"action_node", "human_confirmation_node",
                          "handle_confirmation_response"}

C33_Witness ==
    /\ pc = "continue_flow_node"
    /\ state.iterations = 2
    /\ state.action_history = <<"search_web", "run_python">>
    /\ Len(calls) = 1
    /\ calls[1].by = "action_node"
    /\ calls[1].tool = "run_python"

\* C34: at the gate for send_email the preview is the draft of the current
\* action_input: draft_content in the graph, the request's draft_content in
\* the Streamlit runner.
C34_DraftMatchesInput ==
    /\ (pc = "human_confirmation_node" /\ state.action_name = "send_email")
         => state.draft_content = draft_email(state.action_input)
    /\ (pc = "awaiting_confirmation" /\ confirmation_data.action_name = "send_email")
         => /\ confirmation_data.action_input = state.action_input
            /\ confirmation_data.draft_content = draft_email(state.action_input)
            /\ state.draft_content = draft_email(state.action_input)

C34_Witness ==
    /\ pc = "human_confirmation_node"
    /\ state.iterations = 2
    /\ state.action_history = <<"draft_email", "send_email">>
    /\ state.action_input = WellFormedEmail
    /\ state.draft_content =
         <<"EMAIL DRAFT", "To: ", "bob@example.com", "Subject: ", "Hi",
           "Message: ", "Hello">>

\* the runner reports a step: the event list grows and the loop stays where
\* it is
EmitsStep == thinking_process' # thinking_process /\ pc' = pc

\* the runner asks for confirmation
RequestsConfirmation == pc = "action_node" /\ pc' = "awaiting_confirmation"

\* C35: a step that only reports an event, or that requests confirmation,
\* leaves the AgentState, the handler's dict and the run's result as they are.
C35_EventSinkPureObserver ==
    [][(EmitsStep \/ RequestsConfirmation) =>
         /\ state' = state
         /\ confirm_state' = confirm_state
         /\ result' = result]_vars

C35_Witness ==
    /\ driver = "streamlit"
    /\ pc = "awaiting_confirmation"
    /\ LastStep = [loop |-> 2, step |-> "Action", status |-> "waiting"]
    /\ Len(thinking_process) = 14
    /\ confirmation_data.action_name = "send_email"
    /\ state.iterations = 2

\* C36: the gate is entered only with goal_met false.
C36_GateEnteredWithGoalUnmet ==
    AtGate => ~state.goal_met

\* C37: no tool call of the Action stage is a call of a sensitive tool, and an
\* affirmative user_confirmation is recorded only in a run that has ended, so
\* no later iteration can use it.
C37_ActionNeverRunsSensitiveTool ==
    /\ \A i \in DOMAIN calls :
         calls[i].by = "action_node" => calls[i].tool \notin HUMAN_CONFIRMATION_TOOLS
    /\ state.user_confirmation \in {"y", "yes"} => pc = "END"

C37_Witness ==
    /\ pc = "END"
    /\ state.user_confirmation = "yes"
    /\ state.iterations < state.max_iterations
    /\ Len(calls) = 1
    /\ calls[1].by = "human_confirmation_node"
    /\ calls[1].tool = "send_email"

\* C38: iterations stays within 0..max_iterations and action_history never
\* holds more entries than iterations.
C38_IterationBounds ==
    /\ 0 <= state.iterations
    /\ state.iterations <= state.max_iterations
    /\ Len(state.action_history) <= state.iterations

C38_Witness ==
    /\ state.max_iterations = 2
    /\ state.iterations = 2
    /\ Len(state.action_history) = 2
    /\ pc = "END"
    /\ ~state.goal_met

\* the loop of the Streamlit runner, stage by stage
StreamlitSuccessors(node) ==
    CASE node = "perception_node" -> {"reasoning_node"}
      [] node = "reasoning_node" -> {"action_node"}
      [] node = "action_node" -> {"feedback_node"}
      [] node = "feedback_node" -> {"perception_node", "END"}
      [] OTHER -> {}

\* C39: while no sensitive action is selected the two drivers take the same
\* decisions on the same AgentState: both run Perception, Reasoning, Action,
\* Feedback in this order (the graph adds the pass-through, which changes
\* nothing), after Feedback both continue or stop as should_continue says,
\* and the graph stops early only when a stage raised, as the Streamlit
\* runner does.
C39_DriversEquivalent ==
    /\ [][(driver = "streamlit" /\ pc' # pc /\ ~state'.needs_confirmation) =>
            \/ pc' = "failed" /\ state' = state
            \/ /\ pc' \in StreamlitSuccessors(pc)
               /\ pc = "feedback_node" => pc' = should_continue(state')]_vars
    /\ [][(driver = "graph" /\ pc' # pc /\ ~state'.needs_confirmation) =>
            \/ pc' = "failed" /\ state' = state
            \/ /\ pc' \in GraphSuccessors(pc)
               /\ pc = "feedback_node" => pc' = "continue_flow_node"
               /\ pc = "continue_flow_node" =>
                    pc' = should_continue(state) /\ state' = state]_vars
    /\ [](pc = "failed" =>
            result = IF driver = "graph"
                     THEN error_record(state.query, EngineUnreachable)
                     ELSE session_error(EngineUnreachable))

=============================================================================
